---- MODULE Spec2Model ----
(***************************************************************************)
(* Model of the PomodoroTimer component of src/app/page.tsx: the React     *)
(* state of the component, its event handlers, its two effects and the     *)
(* interval callback that drives the countdown.                            *)
(*                                                                         *)
(* A handler called from a click is a discrete event: React renders and    *)
(* runs the effects of that render before the browser runs any other task, *)
(* so a handler action includes the re-run of both effects (Commit).       *)
(* An interval callback is a timer task: its state updates are rendered    *)
(* later and the effect cleanup (clearInterval) of that render runs later  *)
(* still, so the callback and the effect re-run are separate steps         *)
(* (Tick, FlushEffects) and the interval may fire again in between.        *)
(***************************************************************************)
EXTENDS Integers, Sequences, FiniteSets, TLC

\* ------------------------------------------------------------------ bounds
\* Only countdowns of at most MaxCountdownMinutes are started.
MaxCountdownMinutes == 2
\* At most MaxCountdowns countdowns are run down to zero in a behaviour.
MaxCountdowns == 1
\* At most MaxStaleTicks interval callbacks run after a countdown reached
\* zero and before the effect cleanup clears the interval.
MaxStaleTicks == 1

\* --------------------------------------------------------------- constants
TimerMode == {"focus", "short-break", "long-break"}

DEFAULT_DURATIONS ==
    [m \in TimerMode |->
        CASE m = "focus" -> 25 * 60
          [] m = "short-break" -> 5 * 60
          [] m = "long-break" -> 15 * 60]

DEFAULT_TASKS ==
    << [id |-> "learning", name |-> "Learning",
        targetMinutes |-> 240, completedMinutes |-> 0],
       [id |-> "coding", name |-> "Python Coding / DSA",
        targetMinutes |-> 180, completedMinutes |-> 0],
       [id |-> "aptitude", name |-> "Aptitude",
        targetMinutes |-> 60, completedMinutes |-> 0] >>

\* ------------------------------------------------------------------ inputs
\* Ids handed to setSelectedTaskId: an id of the task list and one id that is
\* not in it (the setter takes any string).
TaskIdInputs == {"learning", "unknown"}

\* Raw texts of the duration input, as sequences of characters: a value
\* below the floor of one minute and the numeral 1.
RawInputs == { <<"-", "5">>, <<"1">> }

\* Modes whose duration the user edits.
EditModes == {"focus", "short-break"}

\* Raw values for the settings-only specification: negative, non-numeric,
\* empty, zero, signed, fractional, padded and trailing-text inputs, and the
\* plain numerals 1 and 2.
EditInputs ==
    RawInputs \cup
    { <<"a", "b", "c">>, <<"0">>, << >>, <<"2">>, <<"1", ".", "5">>,
      <<" ", "2">>, <<"2", "x">>, <<"+", "1">>, <<"-", "0">> }

VARIABLES
    durations,       \* useState(DEFAULT_DURATIONS): the active table
    showSettings,    \* useState(false)
    tempDurations,   \* useState(DEFAULT_DURATIONS): the pending table
    mode,            \* useState("focus")
    timeLeft,        \* useState(durations.focus)
    isRunning,       \* useState(false)
    isComplete,      \* useState(false)
    dailyTasks,      \* useState(DEFAULT_TASKS)
    selectedTaskId,  \* useState("learning")
    interval,        \* the countdown effect's interval: whether the handle is
                     \* live, and the values its callback closed over
    effectsPending,  \* a timer-originated update whose effects have not run
    last,            \* history: the operation of the last step, and the
                     \* phase of the timer it was taken in
    credits,         \* history: completion credits applied so far
    zeros,           \* history: countdowns that went from above zero to zero
    cd               \* history: the countdown since the start from idle,
                     \* with its ticks, whether it was paused and the
                     \* ledger it started with; any operation other than
                     \* tick, pause and the start after a pause ends it

progVars ==
    << durations, showSettings, tempDurations, mode, timeLeft, isRunning,
       isComplete, dailyTasks, selectedTaskId >>

vars ==
    << durations, showSettings, tempDurations, mode, timeLeft, isRunning,
       isComplete, dailyTasks, selectedTaskId, interval, effectsPending,
       last, credits, zeros, cd >>

\* The component's state as one record, so that a handler is a function of it.
St ==
    [ durations |-> durations, showSettings |-> showSettings,
      tempDurations |-> tempDurations, mode |-> mode, timeLeft |-> timeLeft,
      isRunning |-> isRunning, isComplete |-> isComplete,
      dailyTasks |-> dailyTasks, selectedTaskId |-> selectedTaskId,
      interval |-> interval, effectsPending |-> effectsPending ]

\* ----------------------------------------------------------------- effects
\* useEffect(() => setTimeLeft(durations[mode]), [durations, mode])
DurationsModeEffect(old, s) ==
    IF s.durations # old.durations \/ s.mode # old.mode
    THEN [s EXCEPT !.timeLeft = s.durations[s.mode]]
    ELSE s

\* The dependency values the interval callback closes over.
Closure(s) ==
    [ selectedTaskId |-> s.selectedTaskId, durations |-> s.durations,
      mode |-> s.mode ]

\* The countdown effect: cleanup of the previous run (clearInterval), then
\* setInterval when isRunning && timeLeft > 0.
CountdownEffect(s) ==
    [s EXCEPT !.interval = [ live |-> s.isRunning /\ s.timeLeft > 0,
                             env |-> Closure(s) ],
              !.effectsPending = FALSE]

\* Render and effects of a discrete event, run to completion.
Commit(old, s) == CountdownEffect(DurationsModeEffect(old, s))

\* ---------------------------------------------------------------- handlers
\* Mutant: the mode switch leaves the countdown running.
handleModeChange_keepsRunning(s, newMode) ==
    [s EXCEPT !.mode = newMode, !.timeLeft = s.durations[newMode],
              !.isComplete = FALSE]

handleModeChange(s, newMode) ==
    [s EXCEPT !.mode = newMode, !.timeLeft = s.durations[newMode],
              !.isRunning = FALSE, !.isComplete = FALSE]

\* Mutant: start does not clear the complete flag.
handleStart_keepsComplete(s) == [s EXCEPT !.isRunning = TRUE]

\* Mutant: start toggles the running flag.
handleStart_toggles(s) ==
    [s EXCEPT !.isRunning = ~s.isRunning, !.isComplete = FALSE]

handleStart(s) == [s EXCEPT !.isRunning = TRUE, !.isComplete = FALSE]

\* Mutant: Pause also puts the timer back to the full duration.
handlePause_rewinds(s) ==
    [s EXCEPT !.isRunning = FALSE, !.timeLeft = s.durations[s.mode]]

handlePause(s) == [s EXCEPT !.isRunning = FALSE]

\* Mutant: reset restores the default duration, not the active one.
handleReset_toDefault(s) ==
    [s EXCEPT !.timeLeft = DEFAULT_DURATIONS[s.mode], !.isRunning = FALSE,
              !.isComplete = FALSE]

\* Mutant: Reset also clears the task progress.
handleReset_resetsLedger(s) ==
    [s EXCEPT !.isRunning = FALSE, !.isComplete = FALSE,
              !.timeLeft = s.durations[s.mode],
              !.dailyTasks = DEFAULT_TASKS]

\* Mutant: Reset leaves the completion flag as it was.
handleReset_keepsComplete(s) ==
    [s EXCEPT !.isRunning = FALSE, !.timeLeft = s.durations[s.mode]]

handleReset(s) ==
    [s EXCEPT !.timeLeft = s.durations[s.mode], !.isRunning = FALSE,
              !.isComplete = FALSE]

\* Mutant: save restarts the timer but leaves the active table as it was.
handleSaveDurations_keepsActive(s) ==
    [s EXCEPT !.showSettings = FALSE,
              !.timeLeft = s.tempDurations[s.mode], !.isRunning = FALSE,
              !.isComplete = FALSE]

handleSaveDurations(s) ==
    [s EXCEPT !.durations = s.tempDurations, !.showSettings = FALSE,
              !.timeLeft = s.tempDurations[s.mode], !.isRunning = FALSE,
              !.isComplete = FALSE]

\* Mutant: the settings Reset button also resets the active table.
handleResetDurations_resetsActive(s) ==
    [s EXCEPT !.tempDurations = DEFAULT_DURATIONS,
              !.durations = DEFAULT_DURATIONS]

handleResetDurations(s) == [s EXCEPT !.tempDurations = DEFAULT_DURATIONS]

\* Mutant: Reset Tasks clears the progress of the selected task only.
handleResetDailyTasks_selectedOnly(s) ==
    [s EXCEPT !.dailyTasks =
        [i \in DOMAIN s.dailyTasks |->
            IF s.dailyTasks[i].id = s.selectedTaskId
            THEN [s.dailyTasks[i] EXCEPT !.completedMinutes = 0]
            ELSE s.dailyTasks[i]]]

handleResetDailyTasks(s) == [s EXCEPT !.dailyTasks = DEFAULT_TASKS]

setSelectedTaskId(s, id) == [s EXCEPT !.selectedTaskId = id]

\* onClick of the Settings button
toggleSettings(s) ==
    [s EXCEPT !.showSettings = ~s.showSettings, !.tempDurations = s.durations]

\* Number.parseInt(value): leading blanks and one sign are skipped, the
\* longest run of decimal digits is the value, and no digit at all is NaN.
DigitChars == {"0", "1", "2", "3", "4", "5", "6", "7", "8", "9"}

DigitValue(c) ==
    CASE c = "0" -> 0 [] c = "1" -> 1 [] c = "2" -> 2 [] c = "3" -> 3
      [] c = "4" -> 4 [] c = "5" -> 5 [] c = "6" -> 6 [] c = "7" -> 7
      [] c = "8" -> 8 [] c = "9" -> 9

RECURSIVE SkipBlanks(_, _)
SkipBlanks(cs, i) ==
    IF i <= Len(cs) /\ cs[i] = " " THEN SkipBlanks(cs, i + 1) ELSE i

RECURSIVE ParseDigits(_, _, _, _)
ParseDigits(cs, i, acc, any) ==
    IF i <= Len(cs) /\ cs[i] \in DigitChars
    THEN ParseDigits(cs, i + 1, acc * 10 + DigitValue(cs[i]), TRUE)
    ELSE [nan |-> ~any, val |-> acc]

parseInt(cs) ==
    LET i == SkipBlanks(cs, 1)
        signed == i <= Len(cs) /\ cs[i] \in {"-", "+"}
        neg == signed /\ cs[i] = "-"
        r == ParseDigits(cs, IF signed THEN i + 1 ELSE i, 0, FALSE)
    IN  [nan |-> r.nan, val |-> IF neg THEN 0 - r.val ELSE r.val]

\* Number.parseInt of each raw input of the model, computed once.
Parsed == [cs \in EditInputs |-> parseInt(cs)]

Max(a, b) == IF a >= b THEN a ELSE b

\* Mutant: the parsed minutes are stored without the floor of 1.
handleDurationChange_noClamp(s, m, value) ==
    LET parsed == Parsed[value]
        minutes == IF parsed.nan \/ parsed.val = 0 THEN 0 ELSE parsed.val
    IN  [s EXCEPT !.tempDurations =
            [s.tempDurations EXCEPT ![m] = minutes * 60]]

\* Mutant: the clamped minutes are stored as they are, not in seconds.
handleDurationChange_inMinutes(s, m, value) ==
    LET parsed == Parsed[value]
        minutes == IF parsed.nan \/ parsed.val = 0 THEN 0 ELSE parsed.val
    IN  [s EXCEPT !.tempDurations =
            [s.tempDurations EXCEPT ![m] = Max(1, minutes)]]

handleDurationChange(s, m, value) ==
    LET parsed == Parsed[value]
        minutes == IF parsed.nan \/ parsed.val = 0 THEN 0 ELSE parsed.val
    IN  [s EXCEPT !.tempDurations =
            [s.tempDurations EXCEPT ![m] = Max(1, minutes) * 60]]

\* ---------------------------------------------------------------- interval
\* Mutant: the credit is the duration in seconds, not in whole minutes.
creditTasks_inSeconds(prevTasks, taskId, seconds) ==
    [i \in DOMAIN prevTasks |->
        IF prevTasks[i].id = taskId
        THEN [prevTasks[i] EXCEPT
                !.completedMinutes = prevTasks[i].completedMinutes + seconds]
        ELSE prevTasks[i]]

\* Mutant: an id that matches no task credits the first task.
creditTasks_fallsBack(prevTasks, taskId, seconds) ==
    LET known == \E i \in DOMAIN prevTasks : prevTasks[i].id = taskId
    IN  [i \in DOMAIN prevTasks |->
            IF prevTasks[i].id = taskId \/ (~known /\ i = 1)
            THEN [prevTasks[i] EXCEPT
                    !.completedMinutes = prevTasks[i].completedMinutes
                                         + (seconds \div 60)]
            ELSE prevTasks[i]]

\* The setDailyTasks updater of the terminal tick.
creditTasks(prevTasks, taskId, seconds) ==
    [i \in DOMAIN prevTasks |->
        IF prevTasks[i].id = taskId
        THEN [prevTasks[i] EXCEPT
                !.completedMinutes = prevTasks[i].completedMinutes
                                     + (seconds \div 60)]
        ELSE prevTasks[i]]

\* Mutant: the terminal branch is taken one tick late (prev < 1).
tickCallback_stopsLate(s) ==
    LET prev == s.timeLeft
        env == s.interval.env
    IN  IF prev < 1
        THEN [s EXCEPT !.isRunning = FALSE, !.isComplete = TRUE,
                       !.dailyTasks = creditTasks(s.dailyTasks,
                                                  env.selectedTaskId,
                                                  env.durations[env.mode]),
                       !.timeLeft = 0,
                       !.effectsPending = TRUE]
        ELSE [s EXCEPT !.timeLeft = prev - 1, !.effectsPending = TRUE]

\* The setInterval callback: the setTimeLeft updater, with the values of
\* selectedTaskId, durations and mode of the render that created the interval.
tickCallback(s) ==
    LET prev == s.timeLeft
        env == s.interval.env
    IN  IF prev <= 1
        THEN [s EXCEPT !.isRunning = FALSE, !.isComplete = TRUE,
                       !.dailyTasks = creditTasks(s.dailyTasks,
                                                  env.selectedTaskId,
                                                  env.durations[env.mode]),
                       !.timeLeft = 0,
                       !.effectsPending = TRUE]
        ELSE [s EXCEPT !.timeLeft = prev - 1, !.effectsPending = TRUE]

\* ----------------------------------------------------------------- actions
Apply(s) ==
    /\ durations' = s.durations
    /\ showSettings' = s.showSettings
    /\ tempDurations' = s.tempDurations
    /\ mode' = s.mode
    /\ timeLeft' = s.timeLeft
    /\ isRunning' = s.isRunning
    /\ isComplete' = s.isComplete
    /\ dailyTasks' = s.dailyTasks
    /\ selectedTaskId' = s.selectedTaskId
    /\ interval' = s.interval
    /\ effectsPending' = s.effectsPending

\* idle, running or finished, as the flags say.
Phase(s) ==
    IF s.isRunning THEN "running"
    ELSE IF s.isComplete THEN "finished" ELSE "idle"

NoCountdown ==
    [active |-> FALSE, D |-> 0, ticks |-> 0, paused |-> FALSE,
     base |-> << >>]

\* A click: the handler, then the render and its effects.
Click(op, after) ==
    /\ \E handled \in {after} : \E s \in {Commit(St, handled)} : Apply(s)
    /\ last' = [op |-> op, from |-> Phase(St)]
    /\ UNCHANGED << credits, zeros >>

ModeChange(m) ==
    /\ Click("selectMode", handleModeChange(St, m))
    /\ cd' = NoCountdown

\* The handlers are taken in every state: the disabled attributes of the
\* Start and Pause buttons keep the user from the calls that change nothing,
\* and the Start button is enabled in the finished state.  The two bounds
\* keep out the long countdowns of the default table and cap the number of
\* countdowns that are run.
Start ==
    /\ timeLeft > 0 => zeros < MaxCountdowns
    /\ timeLeft <= MaxCountdownMinutes * 60
    /\ Click("start", handleStart(St))
    /\ cd' = IF cd.active /\ cd.paused /\ ~isRunning /\ ~isComplete
             THEN cd
             ELSE IF ~isRunning /\ ~isComplete /\ timeLeft = durations[mode]
             THEN [active |-> TRUE, D |-> timeLeft, ticks |-> 0,
                   paused |-> FALSE, base |-> dailyTasks]
             ELSE NoCountdown

Pause ==
    /\ Click("pause", handlePause(St))
    /\ cd' = IF cd.active /\ cd.ticks < cd.D
             THEN [cd EXCEPT !.paused = TRUE]
             ELSE NoCountdown

Reset ==
    /\ Click("reset", handleReset(St))
    /\ cd' = NoCountdown

SelectTask(id) ==
    /\ Click("selectTask", setSelectedTaskId(St, id))
    /\ cd' = IF id # selectedTaskId THEN NoCountdown ELSE cd

ResetDailyTasks ==
    /\ Click("resetLedger", handleResetDailyTasks(St))
    /\ cd' = NoCountdown

Settings ==
    /\ Click("settings", toggleSettings(St))
    /\ cd' = NoCountdown

\* The settings panel, with its inputs and buttons, is rendered only while
\* showSettings holds.
DurationChange(m, value) ==
    /\ showSettings
    /\ Click("editDuration", handleDurationChange(St, m, value))
    /\ cd' = NoCountdown

ResetDurations ==
    /\ showSettings
    /\ Click("discardToDefault", handleResetDurations(St))
    /\ cd' = NoCountdown

SaveDurations ==
    /\ showSettings
    /\ Click("save", handleSaveDurations(St))
    /\ cd' = NoCountdown

\* The interval fires: the handle is live until the effect cleanup clears it.
Tick ==
    /\ interval.live
    /\ timeLeft = 0 => credits - zeros < MaxStaleTicks
    /\ \E s \in {tickCallback(St)} : Apply(s)
    /\ last' = [op |-> "tick", from |-> Phase(St)]
    /\ credits' = IF timeLeft <= 1 THEN credits + 1 ELSE credits
    /\ zeros' = IF timeLeft = 1 THEN zeros + 1 ELSE zeros
    /\ cd' = IF cd.active /\ cd.ticks < cd.D
             THEN [cd EXCEPT !.ticks = cd.ticks + 1]
             ELSE NoCountdown

\* The render of a timer-originated update has committed: its effects run.
FlushEffects ==
    /\ effectsPending
    /\ \E s \in {CountdownEffect(St)} : Apply(s)
    /\ last' = [op |-> "effects", from |-> Phase(St)]
    /\ UNCHANGED << credits, zeros, cd >>

Init ==
    /\ durations = DEFAULT_DURATIONS
    /\ showSettings = FALSE
    /\ tempDurations = DEFAULT_DURATIONS
    /\ mode = "focus"
    /\ timeLeft = DEFAULT_DURATIONS["focus"]
    /\ isRunning = FALSE
    /\ isComplete = FALSE
    /\ dailyTasks = DEFAULT_TASKS
    /\ selectedTaskId = "learning"
    /\ interval = [live |-> FALSE,
                   env |-> [selectedTaskId |-> "learning",
                            durations |-> DEFAULT_DURATIONS,
                            mode |-> "focus"]]
    /\ effectsPending = FALSE
    /\ last = [op |-> "init", from |-> "idle"]
    /\ credits = 0
    /\ zeros = 0
    /\ cd = NoCountdown

Next ==
    \/ \E m \in TimerMode : ModeChange(m)
    \/ Start
    \/ Pause
    \/ Reset
    \/ \E id \in TaskIdInputs : SelectTask(id)
    \/ ResetDailyTasks
    \/ Settings
    \/ \E m \in EditModes : \E value \in RawInputs : DurationChange(m, value)
    \/ ResetDurations
    \/ SaveDurations
    \/ Tick
    \/ FlushEffects

Spec == Init /\ [][Next]_vars

\* ---------------------------------------------------------- settings only
\* The settings panel on its own, with the wider raw inputs: the edit keeps
\* the mode and the raw value it was called with.
EditDuration(m, value) ==
    /\ showSettings
    /\ \E handled \in {handleDurationChange(St, m, value)} :
          \E s \in {Commit(St, handled)} : Apply(s)
    /\ last' = [op |-> "editDuration", from |-> Phase(St),
                m |-> m, value |-> value]
    /\ UNCHANGED << credits, zeros, cd >>

NextSettings ==
    \/ Settings
    \/ \E m \in TimerMode : \E value \in EditInputs : EditDuration(m, value)
    \/ ResetDurations
    \/ SaveDurations

SpecSettings == Init /\ [][NextSettings]_vars

\* ------------------------------------------------------------------ claims
\* The fields the component renders from, without the interval bookkeeping.
Prog(s) ==
    << s.durations, s.showSettings, s.tempDurations, s.mode, s.timeLeft,
       s.isRunning, s.isComplete, s.dailyTasks, s.selectedTaskId >>

TaskIds(tasks) == { tasks[i].id : i \in DOMAIN tasks }

\* C1. Countdown exactness: a countdown started from idle with
\* timeLeft = D = durations[mode], and ticked with no other operation in
\* between, has timeLeft = D - k after k ticks, is running and not complete
\* for k < D, and after the D-th tick has timeLeft = 0, is not running and is
\* complete.
CountdownExactness ==
    (cd.active /\ ~cd.paused) =>
        /\ cd.D = durations[mode]
        /\ timeLeft = cd.D - cd.ticks
        /\ cd.ticks < cd.D => isRunning /\ ~isComplete
        /\ cd.ticks = cd.D => timeLeft = 0 /\ ~isRunning /\ isComplete

\* A short-break countdown has just taken its D-th tick.
CountdownExactnessWitness ==
    /\ cd.active /\ ~cd.paused
    /\ cd.ticks = cd.D /\ cd.D > 0
    /\ mode = "short-break"
    /\ last.op = "tick"

\* C2. Exactly-once credit: as many completion credits have been applied as
\* countdowns have reached zero.
ExactlyOnceCredit == credits = zeros

\* C3. A start taken in the finished state is ignored: the timer is still
\* finished after it.
StartIgnoredWhenFinished ==
    (last.op = "start" /\ last.from = "finished") =>
        (~isRunning /\ isComplete /\ timeLeft = 0)

\* C4. running and complete are never both true.
NeverRunningAndComplete == ~(isRunning /\ isComplete)

\* A start has been taken in the finished state of a countdown that ran out.
NeverRunningAndCompleteWitness ==
    /\ last.op = "start" /\ last.from = "finished"
    /\ isRunning /\ zeros > 0

\* C5. 0 <= timeLeft <= durations[mode] in every state.
RemainingWithinDuration == 0 <= timeLeft /\ timeLeft <= durations[mode]

\* A save has just installed a duration for the current mode that is shorter
\* than the one the timer was constructed with.
RemainingWithinDurationWitness ==
    /\ last.op = "save"
    /\ durations[mode] < DEFAULT_DURATIONS[mode]
    /\ timeLeft = durations[mode]

\* C6. A tick taken in a mode other than focus leaves the ledger unchanged.
OnlyFocusCredits ==
    [][(last'.op = "tick" /\ mode # "focus") => dailyTasks' = dailyTasks]_vars

UnresolvedCreditDropped ==
    [][(/\ last'.op = "tick"
        /\ timeLeft <= 1
        /\ selectedTaskId \notin TaskIds(dailyTasks))
       => /\ dailyTasks' = dailyTasks
          /\ timeLeft' = 0 /\ ~isRunning' /\ isComplete']_vars

\* A countdown has just reached zero with an unknown id selected.
UnresolvedCreditDroppedWitness ==
    /\ last.op = "tick" /\ isComplete /\ timeLeft = 0
    /\ selectedTaskId \notin TaskIds(dailyTasks)
    /\ zeros > 0

\* C9. Selection clamp: in every state, selecting mode m gives mode = m,
\* timeLeft = durations[m], running = false and complete = false, with the
\* active table as it was.
SelectionClamp ==
    /\ \A m \in TimerMode :
          \A s \in {Commit(St, handleModeChange(St, m))} :
              /\ s.mode = m
              /\ s.durations = durations
              /\ s.timeLeft = durations[m]
              /\ ~s.isRunning /\ ~s.isComplete
    /\ last.op = "selectMode" =>
          timeLeft = durations[mode] /\ ~isRunning /\ ~isComplete

\* A mode has just been selected while a countdown was running.
SelectionClampWitness ==
    /\ last.op = "selectMode" /\ last.from = "running"
    /\ mode = "long-break"

\* C10. Idempotent start/pause: in every state, start after start gives the
\* state one start gives, and pause taken while not running changes nothing.
IdempotentStartPause ==
    /\ \A once \in {Commit(St, handleStart(St))} :
          Commit(once, handleStart(once)) = once
    /\ ~isRunning => Prog(Commit(St, handlePause(St))) = Prog(St)
    /\ (last.op = "start" /\ last.from = "running") => isRunning /\ ~isComplete

\* A start has just been taken while the timer was already running.
IdempotentStartPauseWitness ==
    /\ last.op = "start" /\ last.from = "running"
    /\ isRunning /\ timeLeft > 0

\* C11. save commits: in every state, save makes the active table equal to
\* the pending table and leaves timeLeft = the new durations[mode], not
\* running, not complete, with the mode and the pending table as they were.
SaveCommits ==
    /\ \A s \in {Commit(St, handleSaveDurations(St))} :
           /\ s.durations = tempDurations
           /\ s.tempDurations = tempDurations
           /\ s.mode = mode
           /\ s.timeLeft = tempDurations[mode]
           /\ ~s.isRunning /\ ~s.isComplete /\ ~s.interval.live
    /\ last.op = "save" =>
          /\ durations = tempDurations
          /\ timeLeft = durations[mode]
          /\ ~isRunning /\ ~isComplete

\* A save has just been taken while a countdown was running.
SaveCommitsWitness ==
    /\ last.op = "save" /\ last.from = "running"
    /\ durations = tempDurations
    /\ timeLeft = durations[mode]

\* C12. editDuration and discardToDefault change the pending table only: the
\* active table, the timer, the ledger, the selection and a live interval
\* are as they were.
ExceptPending(s) == [s EXCEPT !.tempDurations = DEFAULT_DURATIONS]

PendingOnly ==
    /\ \A m \in TimerMode : \A value \in RawInputs :
          ExceptPending(Commit(St, handleDurationChange(St, m, value)))
              = ExceptPending(CountdownEffect(St))
    /\ ExceptPending(Commit(St, handleResetDurations(St)))
          = ExceptPending(CountdownEffect(St))
    /\ last.op \in {"editDuration", "discardToDefault"} =>
          (last.from = "running" => isRunning)

\* The pending table has just been discarded to the defaults while a countdown
\* runs against an active table that differs from them.
PendingOnlyWitness ==
    /\ last.op = "discardToDefault" /\ last.from = "running"
    /\ isRunning /\ interval.live /\ timeLeft < durations[mode]
    /\ tempDurations = DEFAULT_DURATIONS /\ durations # DEFAULT_DURATIONS

\* C14. Ledger reset: in every state, resetLedger makes the ledger the default
\* task list, every completedMinutes 0, and leaves the timer, the selection
\* and both tables as they were.
LedgerReset ==
    /\ \A s \in {Commit(St, handleResetDailyTasks(St))} :
           /\ s.dailyTasks = DEFAULT_TASKS
           /\ \A i \in DOMAIN s.dailyTasks :
                 s.dailyTasks[i].completedMinutes = 0
           /\ Prog(s) = Prog([St EXCEPT !.dailyTasks = DEFAULT_TASKS])
    /\ last.op = "resetLedger" => dailyTasks = DEFAULT_TASKS

\* The ledger has just been reset after a completion had credited a task.
LedgerResetWitness ==
    /\ last.op = "resetLedger"
    /\ credits > 0 /\ selectedTaskId \in TaskIds(dailyTasks)
    /\ dailyTasks = DEFAULT_TASKS

\* C13. Duration edit clamp: an edit of mode m with a raw value stores
\* max(1, n) * 60 in the pending table at m, n being the integer the value
\* parses to and 0 for a value that is not a number; negative, zero and
\* non-numeric values store exactly 60; the other pending entries are as they
\* were.
ParsedMinutes(value) ==
    CASE value = <<"-", "5">> -> 0 - 5
      [] value = <<"a", "b", "c">> -> 0
      [] value = <<"0">> -> 0
      [] value = <<"1">> -> 1
      [] value = << >> -> 0
      [] value = <<"2">> -> 2
      [] value = <<"1", ".", "5">> -> 1
      [] value = <<" ", "2">> -> 2
      [] value = <<"2", "x">> -> 2
      [] value = <<"+", "1">> -> 1
      [] value = <<"-", "0">> -> 0

StoredSeconds(value) ==
    IF ParsedMinutes(value) < 1 THEN 60 ELSE ParsedMinutes(value) * 60

EditClamp ==
    /\ \A m \in TimerMode : \A value \in EditInputs :
          handleDurationChange(St, m, value).tempDurations
              = [tempDurations EXCEPT ![m] = StoredSeconds(value)]
    /\ \A m \in TimerMode :
          \A value \in { <<"-", "5">>, <<"a", "b", "c">>, <<"0">>, << >> } :
              handleDurationChange(St, m, value).tempDurations[m] = 60
    /\ last.op = "editDuration" =>
          tempDurations[last.m] = StoredSeconds(last.value)

\* A negative value has just been stored as one minute over a longer entry.
EditClampWitness ==
    /\ last.op = "editDuration" /\ last.value = <<"-", "5">>
    /\ tempDurations[last.m] = 60 /\ durations[last.m] > 60
    /\ \E m \in TimerMode : tempDurations[m] = 120

\* C19. Every mode's duration, in the active and in the pending table, is a
\* whole number of minutes of at least one minute.
DurationsWellFormed ==
    \A m \in TimerMode :
        /\ durations[m] >= 60 /\ durations[m] % 60 = 0
        /\ tempDurations[m] >= 60 /\ tempDurations[m] % 60 = 0

\* Edited entries have just been saved into the active table.
DurationsWellFormedWitness ==
    /\ last.op = "save"
    /\ durations["focus"] = 60 /\ durations["long-break"] = 120
    /\ tempDurations = durations

\* C15. Liveness of the countdown: in every reachable state where the timer
\* is running the interval is set, so a tick is enabled and the countdown
\* cannot stay running for ever without a tick.
RunningHasTick == isRunning => interval.live

\* C16. No stale tick: an interval callback that runs when the timer is not
\* running changes neither timeLeft, the flags nor the ledger.
NoStaleTick ==
    [][(last'.op = "tick" /\ ~isRunning) =>
          UNCHANGED << timeLeft, isRunning, isComplete, dailyTasks >>]_vars

CompleteOnlyByTerminalTick ==
    /\ [][(~isComplete /\ isComplete') =>
             (last'.op = "tick" /\ isRunning /\ timeLeft <= 1)]_vars
    /\ [](isComplete => (timeLeft = 0 /\ ~isRunning))
    /\ [](last.op \in {"reset", "selectMode", "save"} => ~isComplete)

\* The terminal tick has just set the flag.
CompleteOnlyByTerminalTickWitness ==
    /\ last.op = "tick" /\ last.from = "running"
    /\ isComplete /\ timeLeft = 0 /\ ~isRunning

\* C20. Pause preserves progress: pause changes isRunning only and leaves no
\* interval, no tick is enabled while the timer is paused, and a countdown of
\* duration D interrupted by pause and start only has timeLeft = D - k after
\* k ticks in total, finishes at the D-th tick and has by then credited the
\* selected task exactly once.
PausePreservesProgress ==
    /\ \A s \in {Commit(St, handlePause(St))} :
           /\ Prog(s) = Prog([St EXCEPT !.isRunning = FALSE])
           /\ ~s.interval.live
    /\ (~isRunning /\ ~isComplete) => ~interval.live
    /\ (cd.active /\ cd.paused) =>
          /\ cd.D = durations[mode]
          /\ timeLeft = cd.D - cd.ticks
          /\ cd.ticks < cd.D => ~isComplete /\ dailyTasks = cd.base
          /\ cd.ticks = cd.D =>
                /\ timeLeft = 0 /\ ~isRunning /\ isComplete
                /\ dailyTasks =
                      [i \in DOMAIN cd.base |->
                          IF cd.base[i].id = selectedTaskId
                          THEN [cd.base[i] EXCEPT !.completedMinutes =
                                   cd.base[i].completedMinutes + cd.D \div 60]
                          ELSE cd.base[i]]

\* A countdown that was paused and resumed has just finished and credited
\* the selected task.
PausePreservesProgressWitness ==
    /\ cd.active /\ cd.paused
    /\ cd.ticks = cd.D /\ cd.D > 0
    /\ last.op = "tick" /\ isComplete
    /\ selectedTaskId \in TaskIds(dailyTasks) /\ dailyTasks # cd.base

====
